---- MODULE Spec2Model ----
(***************************************************************************)
(* Model of the accounts daemon of cosmic-utils/accounts: the OAuth2       *)
(* authorization flow (accounts-daemon/src/auth.rs), the D-Bus interface   *)
(* (accounts-daemon/src/account.rs), the account registry                  *)
(* (src/config.rs) and the credential store                                *)
(* (accounts-daemon/src/storage.rs).                                       *)
(*                                                                         *)
(* Every interface method takes `&mut self`, so one call runs at a time    *)
(* from its first statement to its return; `call` is the call in progress. *)
(* A call is split into steps at its `.await` points (and between the      *)
(* credential write and the registry write of an admission, which follow   *)
(* one another without an await, so that their order is observable).  Its  *)
(* last step leaves `call` at pc = "done" with the result; Reply sends the *)
(* reply and frees the interface.                                          *)
(*                                                                         *)
(* Abstractions: uuids and CSRF tokens are fresh naturals (0 is a string   *)
(* that is not a uuid / a token that was never issued); Account.created_at *)
(* and Account.last_used are left out; the outcome of every network or     *)
(* storage request is chosen nondeterministically.                         *)
(***************************************************************************)
EXTENDS Integers, Sequences, FiniteSets, TLC

(* ---------------- bounds ---------------- *)
MaxStarts == 2          \* StartAuthentication calls that reach the pending table
MaxTime == 2            \* the clock runs over 0..MaxTime
MaxToggles == 1         \* SetAccountEnabled / SetServiceEnabled saves that change the registry

(* ---------------- values ---------------- *)
Null == "None"           \* Option<String>::None and "no error"
None == <<>>             \* Option<T>::None; Some(x) is <<x>>
Some(x) == <<x>>
Callers == {"c1", "c2"}
Providers == {"Google", "Microsoft"}
ProviderNames == {"google", "Microsoft", "gitlab"}
Codes == {"code1"}
BadId == 0
UnknownId == 99          \* a well-formed uuid that no account ever had
ServiceArgs == {"calendar", "bogus"}
WrongToken == 0
NoReq == <<>>
NoClient == <<>>
NoCallback == [pc |-> "none"]
Idle == [op |-> "idle"]

(* error reasons, as the interface reports them *)
ErrInvalidCsrf == "Invalid CSRF token"
ErrInvalidProviderConfig == "Invalid provider configuration"
ErrInvalidProvider == "Invalid provider"
ErrOAuth2 == "OAuth2 error"
ErrNetwork == "Network error"
ErrUserInfo == "Failed to get user info"
ErrAccountAlreadyExists == "Account already exists"
ErrStorage == "Storage error"
ErrCredentialStorage == "Credential storage error"
ErrAccountNotSaved == "Account not saved"
ErrAccountNotFound == "Account not found"
ErrAccountNotRemoved == "Account not removed"
ErrAccountNotUpdated == "Account not updated"
ErrInvalidService == "Invalid service"
ErrUuid == "invalid uuid"
ErrTokenExpired == "Token expired"
ErrTokenRefreshFailed == "Token refresh failed"
ErrHook == "object server error"
ErrCosmicConfig == "Cosmic config error"

VARIABLES
    configs,        \* AuthManager.configs: providers with a configuration
    accounts,       \* AccountsInterface.config.accounts (the registry)
    auth_accounts,  \* AuthManager.config.accounts
    pending_auth,   \* AuthManager.pending_auth
    store,          \* the secret service: account id -> Credential
    now,            \* Utc::now()
    nextId,         \* next value of Uuid::new_v4()
    nextToken,      \* next value of CsrfToken::new_random / new_random_sha256
    req,            \* CompleteAuthentication requests on the bus, per caller
    call,           \* the interface call in progress
    resp,           \* per caller, how the remove-and-consume step of its last call ended
    race,           \* the token both callers asked to redeem at once while it was pending
    redeemed,       \* tokens that matched a pending authorization (history)
    minted,         \* account ids a credential was written for on redeeming `race` (history)
    del_failed,     \* a credential deletion has failed (history)
    toggles,        \* enable / service saves that changed the registry so far
    client,         \* the notification a caller is about to ask the daemon to emit
    owed,           \* notifications of successful mutations not yet emitted (history)
    issued,         \* per state token, what the StartAuthentication that issued it recorded (history)
    callback        \* the redirect handle_callback is serving, or served last

vars == <<configs, issued, callback, client, owed, accounts, auth_accounts, pending_auth, store, now,
          nextId, nextToken, req, call, resp, race, redeemed, minted, del_failed, toggles>>

(* ---------------- models/provider.rs, models/service.rs ---------------- *)

\* Provider::from_str
Provider_from_str(s) ==
    IF s \in {"google", "Google"} THEN "Google"
    ELSE IF s \in {"microsoft", "Microsoft"} THEN "Microsoft"
    ELSE Null

\* Provider::capabilities (called as provider.services() by the daemon)
Provider_services(p) == [s \in {"Email", "Calendar"} |-> FALSE]

\* a parse that takes an unknown name for the calendar
Service_from_str_lenient(s) ==
    IF s \in {"email", "Email"} THEN "Email"
    ELSE IF s \in {"contacts", "Contacts"} THEN "Contacts"
    ELSE IF s \in {"todo", "Todo"} THEN "Todo"
    ELSE "Calendar"

\* Service::from_str
Service_from_str(s) ==
    IF s \in {"email", "Email"} THEN "Email"
    ELSE IF s \in {"calendar", "Calendar"} THEN "Calendar"
    ELSE IF s \in {"contacts", "Contacts"} THEN "Contacts"
    ELSE IF s \in {"todo", "Todo"} THEN "Todo"
    ELSE Null

\* ProviderConfig.scopes of the provider's configuration file
Scopes(p) == IF p = "Google" THEN <<"openid", "email">> ELSE <<"User.Read">>

(* ---------------- config.rs ---------------- *)

Ids(accts) == {accts[i].id : i \in 1..Len(accts)}

\* a lookup that makes up a record for an id it does not find
get_account_or_default(accts, id) ==
    IF \E i \in 1..Len(accts) : accts[i].id = id
    THEN Some(accts[CHOOSE i \in 1..Len(accts) : accts[i].id = id])
    ELSE Some([id |-> id, provider |-> "Google", display_name |-> "Unknown",
               username |-> "Unknown", email |-> Null, enabled |-> FALSE,
               services |-> [s \in {"Email", "Calendar"} |-> FALSE]])

\* AccountsConfig::get_account
get_account(accts, id) ==
    IF \E i \in 1..Len(accts) : accts[i].id = id
    THEN Some(accts[CHOOSE i \in 1..Len(accts) :
                      accts[i].id = id /\ \A j \in 1..(i-1) : accts[j].id # id])
    ELSE None

\* AccountsConfig::account_exists
account_exists(accts, username, provider) ==
    \E i \in 1..Len(accts) :
        accts[i].username = username /\ accts[i].provider = provider

\* a save that starts from the list read when the daemon started
saved_accounts_stale(accts, account) ==
    IF \E i \in 1..Len(auth_accounts) : auth_accounts[i].id = account.id
    THEN [i \in 1..Len(auth_accounts) |->
            IF auth_accounts[i].id = account.id THEN account ELSE auth_accounts[i]]
    ELSE Append(auth_accounts, account)

\* the list save_account hands to set_accounts
saved_accounts(accts, account) ==
    IF \E i \in 1..Len(accts) : accts[i].id = account.id
    THEN LET k == CHOOSE i \in 1..Len(accts) :
                     accts[i].id = account.id /\ \A j \in 1..(i-1) : accts[j].id # account.id
         IN [accts EXCEPT ![k] = account]
    ELSE Append(accts, account)

\* the list remove_account hands to set_accounts
retained_accounts(accts, id) == SelectSeq(accts, LAMBDA a : a.id # id)

\* AccountsConfig::save_account: the outcomes of one call, as the new
\* in-memory list and the error returned.  config_handler() is evaluated in
\* every call; when it is None the call logs a warning and returns Ok(())
\* with the list as it was.  The generated setter set_accounts skips the
\* write when the list is unchanged; when the write fails the list in memory
\* is either the new or the old one (the setter is generated outside this
\* repository).
save_account(accts, account) ==
    LET value == saved_accounts(accts, account)
    IN  {[accounts |-> accts, err |-> Null]} \cup
        IF value = accts THEN {}
        ELSE {[accounts |-> value, err |-> Null],
              [accounts |-> value, err |-> ErrCosmicConfig],
              [accounts |-> accts, err |-> ErrCosmicConfig]}

\* AccountsConfig::remove_account, in the same way
remove_account(accts, id) ==
    LET value == retained_accounts(accts, id)
    IN  {[accounts |-> accts, err |-> Null]} \cup
        IF value = accts THEN {}
        ELSE {[accounts |-> value, err |-> Null],
              [accounts |-> value, err |-> ErrCosmicConfig],
              [accounts |-> accts, err |-> ErrCosmicConfig]}

(* ---------------- storage.rs ---------------- *)

\* CredentialStorage::set_account_credentials: create_item with replace = true
set_account_credentials(st, id, credential) ==
    [k \in DOMAIN st \cup {id} |-> IF k = id THEN credential ELSE st[k]]

\* CredentialStorage::delete_account_credentials: every item found is deleted
delete_account_credentials(st, id) == [k \in DOMAIN st \ {id} |-> st[k]]

\* CredentialStorage::get_account_credentials
get_account_credentials(st, id) == IF id \in DOMAIN st THEN Some(st[id]) ELSE None

(* ---------------- account.rs: the read operations ---------------- *)

\* Uuid::parse_str
Uuid_parse_str(id) == IF id = BadId THEN None ELSE Some(id)

\* AccountsInterface::get_account: the reply to GetAccount(id)
GetAccount(id) ==
    IF Uuid_parse_str(id) = None THEN [err |-> ErrUuid, value |-> None]
    ELSE IF \E i \in 1..Len(accounts) : accounts[i].id = id
         THEN [err |-> Null, value |-> get_account(accounts, id)]
         ELSE [err |-> ErrAccountNotFound, value |-> None]

\* AccountsInterface::list_accounts
ListAccounts == accounts

(* ---------------- auth.rs ---------------- *)

\* the responses of the provider's token endpoint
TokenResponses ==
    { [access_token |-> "tok1", refresh_token |-> Null, expires_in |-> None],
      [access_token |-> "tok2", refresh_token |-> "r1", expires_in |-> Some(1)] }

\* the documents the identity endpoints answer with
UserDatas ==
    { [name |-> "A", email |-> "a@x", displayName |-> "A",
       userPrincipalName |-> "a@x", mail |-> "a@x"],
      [name |-> Null, email |-> "b@x", displayName |-> Null,
       userPrincipalName |-> "b@x", mail |-> Null] }

unwrap_or(v, d) == IF v = Null THEN d ELSE v

\* AuthManager::get_user_info: UserInfo from the identity document
UserInfo(provider, user_data) ==
    IF provider = "Google"
    THEN [display_name |-> unwrap_or(user_data.name, "Unknown"),
          username |-> unwrap_or(user_data.email, "Unknown"),
          email |-> user_data.email]
    ELSE [display_name |-> unwrap_or(user_data.displayName, "Unknown"),
          username |-> unwrap_or(user_data.userPrincipalName, "Unknown"),
          email |-> unwrap_or(user_data.mail, user_data.userPrincipalName)]

\* an insert that drops the entries the table had
HashMapInsert_only(map, key, value) == [k \in {key} |-> value]

\* HashMap::insert on pending_auth
HashMapInsert(map, key, value) ==
    [k \in DOMAIN map \cup {key} |-> IF k = key THEN value ELSE map[k]]

\* a lookup that returns an entry of the table, whatever the key
HashMapGet_any(map, key) ==
    IF key \in DOMAIN map THEN Some(map[CHOOSE k \in DOMAIN map : TRUE]) ELSE None

\* HashMap::remove on pending_auth: the value it returns
HashMapGet(map, key) == IF key \in DOMAIN map THEN Some(map[key]) ELSE None

\* a remove that leaves the entry in the table
HashMapRemove_keep(map, key) == map

\* a remove that drops every entry when the key is not in the table
HashMapRemove_clear(map, key) ==
    IF key \in DOMAIN map THEN [k \in DOMAIN map \ {key} |-> map[k]] ELSE <<>>

\* HashMap::remove on pending_auth: the table it leaves
HashMapRemove(map, key) == [k \in DOMAIN map \ {key} |-> map[k]]

\* expires_in().map(|d| Utc::now() + d)
ExpiresAt(expires_in, t) == IF expires_in = None THEN None ELSE Some(t + expires_in[1])

NoNet == [exchange |-> 0, userinfo |-> 0, refresh |-> 0]

\* the state of a call that has computed its reply
Done(op, caller, arg, err, value, net) ==
    [op |-> op, pc |-> "done", caller |-> caller, arg |-> arg, err |-> err,
     value |-> value, net |-> net]

\* AccountsInterface::start_authentication and AuthManager::start_auth_flow:
\* the state token and the PKCE verifier are fresh random values
StartAuthentication(provider_name) ==
    /\ call = Idle
    /\ LET provider == Provider_from_str(provider_name)
       IN  IF provider = Null
           THEN /\ call' = Done("start_authentication", Null, provider_name,
                                ErrInvalidProvider, 0, NoNet)
                /\ UNCHANGED <<pending_auth, nextToken, issued>>
           ELSE IF provider \notin configs
           THEN /\ call' = Done("start_authentication", Null, provider_name,
                                ErrInvalidProviderConfig, 0, NoNet)
                /\ UNCHANGED <<pending_auth, nextToken, issued>>
           ELSE LET entry == [provider |-> provider, pkce_verifier |-> nextToken]
                IN  /\ nextToken <= MaxStarts
                    /\ pending_auth' = HashMapInsert(pending_auth, nextToken, entry)
                    /\ issued' = [k \in DOMAIN issued \cup {nextToken} |->
                                    IF k = nextToken THEN entry ELSE issued[k]]
                    /\ nextToken' = nextToken + 1
                    /\ call' = Done("start_authentication", Null, provider_name, Null,
                                    nextToken, NoNet)
    /\ UNCHANGED <<configs, callback, client, owed, accounts, auth_accounts, store, now, nextId,
                   req, resp, race, redeemed, minted, del_failed, toggles>>

\* a client sends CompleteAuthentication(state, code); the call waits on the
\* bus until the interface is free
Issue(c) ==
    /\ req[c] = NoReq
    /\ \E t \in {WrongToken} \cup (1..(nextToken - 1)), code \in Codes :
          /\ req' = [req EXCEPT ![c] = <<t, code>>]
          /\ race' = IF t \in DOMAIN pending_auth
                        /\ \E d \in Callers \ {c} : req[d] # NoReq /\ req[d][1] = t
                     THEN t ELSE WrongToken
    /\ minted' = IF race' = race THEN minted ELSE {}
    /\ resp' = [resp EXCEPT ![c] = Null]
    /\ UNCHANGED <<configs, issued, callback, client, owed, accounts, auth_accounts, pending_auth, store, now,
                   nextId, nextToken, call, redeemed, del_failed, toggles>>

\* complete_auth_flow up to the token request, for the call of caller c with
\* arguments (csrf_token, authorization_code): the pending entry is taken out
complete_auth_flow_begin(c, csrf_token, authorization_code) ==
    /\ call = Idle
    /\ pending_auth' = HashMapRemove(pending_auth, csrf_token)
    /\ IF HashMapGet(pending_auth, csrf_token) = None
       THEN /\ call' = Done("complete_authentication", c, csrf_token,
                            ErrInvalidCsrf, 0, NoNet)
            /\ UNCHANGED redeemed
       ELSE LET entry == HashMapGet(pending_auth, csrf_token)[1]
            IN  /\ redeemed' = redeemed \cup {csrf_token}
                /\ IF entry.provider \notin configs
                   THEN call' = Done("complete_authentication", c, csrf_token,
                                     ErrInvalidProviderConfig, 0, NoNet)
                   ELSE call' = [op |-> "complete_authentication", pc |-> "exchange",
                                 caller |-> c, arg |-> csrf_token,
                                 authorization_code |-> authorization_code,
                                 provider |-> entry.provider,
                                 pkce_verifier |-> entry.pkce_verifier,
                                 net |-> NoNet]
    /\ UNCHANGED <<configs, issued, client, owed, accounts, auth_accounts, store, now, nextId,
                   nextToken, race, minted, del_failed, toggles>>

\* CompleteAuthentication(state, code) sent while the interface is free
CompleteAuthentication(csrf_token, authorization_code) ==
    /\ complete_auth_flow_begin(Null, csrf_token, authorization_code)
    /\ UNCHANGED <<req, resp, callback>>

\* the interface takes up the waiting call of caller c
CompleteBegin(c) ==
    /\ req[c] # NoReq
    /\ complete_auth_flow_begin(c, req[c][1], req[c][2])
    /\ req' = [req EXCEPT ![c] = NoReq]
    /\ resp' = [resp EXCEPT ![c] = IF call'.pc = "done" /\ call'.err = ErrInvalidCsrf
                                   THEN "InvalidState" ELSE "passed"]
    /\ UNCHANGED callback

\* a token request that is sent again after a failure
TokenExchange_retry ==
    /\ call.op = "complete_authentication" /\ call.pc = "exchange"
    /\ LET net == [call.net EXCEPT !.exchange = @ + 1]
       IN  \/ /\ call.net.exchange = 0
              /\ call' = [call EXCEPT !.net = net]
           \/ /\ call.net.exchange > 0
              /\ call' = Done("complete_authentication", call.caller, call.arg, ErrOAuth2, 0, net)
           \/ \E r \in TokenResponses :
                call' = [op |-> "complete_authentication", pc |-> "userinfo",
                         caller |-> call.caller, arg |-> call.arg,
                         provider |-> call.provider,
                         pkce_used |-> call.pkce_verifier,
                         token_result |-> r,
                         exchanged_at |-> now,
                         expires_at |-> ExpiresAt(r.expires_in, now),
                         net |-> net]
    /\ UNCHANGED <<configs, issued, callback, client, owed, accounts, auth_accounts, pending_auth, store, now,
                   nextId, nextToken, req, resp, race, redeemed, minted, del_failed, toggles>>

\* exchange_code(...).set_pkce_verifier(...).request_async(...).await?
TokenExchange ==
    /\ call.op = "complete_authentication" /\ call.pc = "exchange"
    /\ LET net == [call.net EXCEPT !.exchange = @ + 1]
       IN  \/ call' = Done("complete_authentication", call.caller, call.arg, ErrOAuth2, 0, net)
           \/ \E r \in TokenResponses :
                call' = [op |-> "complete_authentication", pc |-> "userinfo",
                         caller |-> call.caller, arg |-> call.arg,
                         provider |-> call.provider,
                         pkce_used |-> call.pkce_verifier,
                         token_result |-> r,
                         exchanged_at |-> now,
                         expires_at |-> ExpiresAt(r.expires_in, now),
                         net |-> net]
    /\ UNCHANGED <<configs, issued, callback, client, owed, accounts, auth_accounts, pending_auth, store, now,
                   nextId, nextToken, req, resp, race, redeemed, minted, del_failed, toggles>>

\* a flow that writes the credential before the duplicate check
GetUserInfo_write_first ==
    /\ call.op = "complete_authentication" /\ call.pc = "userinfo"
    /\ LET net == [call.net EXCEPT !.userinfo = @ + 1]
       IN  \/ /\ \E e \in {ErrNetwork, ErrUserInfo} :
                    call' = Done("complete_authentication", call.caller, call.arg, e, 0, net)
              /\ UNCHANGED <<nextId, store>>
           \/ \E d \in UserDatas :
                LET user_info == UserInfo(call.provider, d)
                    credentials == [access_token |-> call.token_result.access_token,
                                    refresh_token |-> call.token_result.refresh_token,
                                    expires_at |-> call.expires_at,
                                    scope |-> Scopes(call.provider),
                                    token_type |-> "Bearer"]
                    existing == {i \in 1..Len(auth_accounts) :
                                    /\ auth_accounts[i].username = user_info.username
                                    /\ auth_accounts[i].provider = call.provider}
                IN  IF existing # {}
                    THEN /\ store' = set_account_credentials(
                                        store, auth_accounts[CHOOSE i \in existing : TRUE].id,
                                        credentials)
                         /\ call' = [Done("complete_authentication", call.caller, call.arg,
                                          ErrAccountAlreadyExists, 0, net)
                                     EXCEPT !.value = 0] @@
                                    [provider |-> call.provider, user_info |-> user_info]
                         /\ UNCHANGED nextId
                    ELSE /\ call' = [op |-> "complete_authentication", pc |-> "set_credentials",
                                     caller |-> call.caller, arg |-> call.arg,
                                     provider |-> call.provider,
                                     pkce_used |-> call.pkce_used,
                                     token_result |-> call.token_result,
                                     exchanged_at |-> call.exchanged_at,
                                     user_info |-> user_info,
                                     credentials |-> credentials,
                                     account |->
                                        [id |-> nextId,
                                         provider |-> call.provider,
                                         display_name |-> user_info.display_name,
                                         username |-> user_info.username,
                                         email |-> user_info.email,
                                         enabled |-> TRUE,
                                         services |-> Provider_services(call.provider)],
                                     net |-> net]
                         /\ nextId' = nextId + 1
                         /\ UNCHANGED store
    /\ UNCHANGED <<configs, issued, callback, client, owed, accounts, auth_accounts,
                   pending_auth, now, nextToken, req, resp, race, redeemed, minted,
                   del_failed, toggles>>

\* get_user_info, the duplicate check, and the construction of the
\* Credential and the Account
GetUserInfo ==
    /\ call.op = "complete_authentication" /\ call.pc = "userinfo"
    /\ LET net == [call.net EXCEPT !.userinfo = @ + 1]
       IN  \/ /\ \E e \in {ErrNetwork, ErrUserInfo} :
                    call' = Done("complete_authentication", call.caller, call.arg, e, 0, net)
              /\ UNCHANGED nextId
           \/ \E d \in UserDatas :
                LET user_info == UserInfo(call.provider, d)
                IN  IF account_exists(auth_accounts, user_info.username, call.provider)
                    THEN /\ call' = [Done("complete_authentication", call.caller, call.arg,
                                          ErrAccountAlreadyExists, 0, net)
                                     EXCEPT !.value = 0] @@
                                    [provider |-> call.provider, user_info |-> user_info]
                         /\ UNCHANGED nextId
                    ELSE /\ call' = [op |-> "complete_authentication", pc |-> "set_credentials",
                                     caller |-> call.caller, arg |-> call.arg,
                                     provider |-> call.provider,
                                     pkce_used |-> call.pkce_used,
                                     token_result |-> call.token_result,
                                     exchanged_at |-> call.exchanged_at,
                                     user_info |-> user_info,
                                     credentials |->
                                        [access_token |-> call.token_result.access_token,
                                         refresh_token |-> call.token_result.refresh_token,
                                         expires_at |-> call.expires_at,
                                         scope |-> Scopes(call.provider),
                                         token_type |-> "Bearer"],
                                     account |->
                                        [id |-> nextId,
                                         provider |-> call.provider,
                                         display_name |-> user_info.display_name,
                                         username |-> user_info.username,
                                         email |-> user_info.email,
                                         enabled |-> TRUE,
                                         services |-> Provider_services(call.provider)],
                                     net |-> net]
                         /\ nextId' = nextId + 1
    /\ UNCHANGED <<configs, issued, callback, client, owed, accounts, auth_accounts, pending_auth, store, now,
                   nextToken, req, resp, race, redeemed, minted, del_failed, toggles>>

\* storage.set_account_credentials(&account.id, &credentials).await?
SetCredentials ==
    /\ call.op = "complete_authentication" /\ call.pc = "set_credentials"
    /\ \/ /\ call' = Done("complete_authentication", call.caller, call.arg, ErrStorage,
                          0, call.net)
          /\ UNCHANGED <<store, minted>>
       \/ /\ store' = set_account_credentials(store, call.account.id, call.credentials)
          /\ minted' = IF call.arg = race THEN minted \cup {call.account.id} ELSE minted
          /\ call' = [call EXCEPT !.pc = "save"]
    /\ UNCHANGED <<configs, issued, callback, client, owed, accounts, auth_accounts, pending_auth, now, nextId,
                   nextToken, req, resp, race, redeemed, del_failed, toggles>>

\* complete_authentication after complete_auth_flow returned the account
SaveAccount ==
    /\ call.op = "complete_authentication" /\ call.pc = "save"
    /\ \E out \in save_account(accounts, call.account) :
          /\ accounts' = out.accounts
          /\ call' = IF out.err = Null
                     THEN [call EXCEPT !.pc = "done"] @@
                          [err |-> Null, value |-> call.account.id]
                     ELSE Done("complete_authentication", call.caller, call.arg,
                               ErrAccountNotSaved, 0, call.net)
    /\ UNCHANGED <<configs, issued, callback, client, owed, auth_accounts, pending_auth, store, now, nextId,
                   nextToken, req, resp, race, redeemed, minted, del_failed, toggles>>

\* the reply is sent; the interface takes the next call
Reply ==
    /\ call # Idle /\ call.pc = "done"
    /\ call' = Idle
    /\ UNCHANGED <<configs, issued, callback, client, owed, accounts, auth_accounts, pending_auth, store, now,
                   nextId, nextToken, req, resp, race, redeemed, minted, del_failed, toggles>>

(* ---------------- account.rs: the mutating operations ---------------- *)

IdArgs == {BadId, UnknownId} \cup (1..(nextId - 1))

\* a removal whose credential deletion reports nothing
DeleteCredentials_swallow ==
    /\ call.op = "remove_account" /\ call.pc = "delete_credentials"
    /\ \/ /\ call' = Done("remove_account", Null, call.arg, Null, 0, NoNet)
                      @@ [present |-> call.present]
          /\ del_failed' = TRUE
          /\ UNCHANGED store
       \/ /\ store' = delete_account_credentials(store, call.arg)
          /\ call' = Done("remove_account", Null, call.arg, Null, 0, NoNet)
                      @@ [present |-> call.present]
          /\ UNCHANGED del_failed
    /\ UNCHANGED <<configs, issued, callback, client, owed, accounts, auth_accounts, pending_auth, now, nextId,
                   nextToken, req, resp, race, redeemed, minted, toggles>>

\* AccountsInterface::remove_account up to delete_credentials(..).await;
\* `present` notes whether the id was in the registry when the call began
RemoveAccount(id) ==
    /\ call = Idle
    /\ IF Uuid_parse_str(id) = None
       THEN /\ call' = Done("remove_account", Null, id, ErrUuid, 0, NoNet)
                        @@ [present |-> FALSE]
            /\ UNCHANGED accounts
       ELSE \E out \in remove_account(accounts, id) :
              /\ accounts' = out.accounts
              /\ call' = [present |-> id \in Ids(accounts)] @@
                         IF out.err # Null
                         THEN Done("remove_account", Null, id, ErrAccountNotRemoved, 0, NoNet)
                         ELSE [op |-> "remove_account", pc |-> "delete_credentials", arg |-> id]
    /\ UNCHANGED <<configs, issued, callback, client, owed, auth_accounts, pending_auth, store, now, nextId,
                   nextToken, req, resp, race, redeemed, minted, del_failed, toggles>>

\* auth_manager.delete_credentials(&id).await
DeleteCredentials ==
    /\ call.op = "remove_account" /\ call.pc = "delete_credentials"
    /\ \/ /\ call' = Done("remove_account", Null, call.arg, ErrCredentialStorage, 0, NoNet)
                      @@ [present |-> call.present]
          /\ del_failed' = TRUE
          /\ UNCHANGED store
       \/ /\ store' = delete_account_credentials(store, call.arg)
          /\ call' = Done("remove_account", Null, call.arg, Null, 0, NoNet)
                      @@ [present |-> call.present]
          /\ UNCHANGED del_failed
    /\ UNCHANGED <<configs, issued, callback, client, owed, accounts, auth_accounts, pending_auth, now, nextId,
                   nextToken, req, resp, race, redeemed, minted, toggles>>

\* AccountsInterface::set_account_enabled
SetAccountEnabled(id, enabled) ==
    /\ call = Idle
    /\ IF Uuid_parse_str(id) = None
       THEN /\ call' = Done("set_account_enabled", Null, id, ErrUuid, 0, NoNet)
            /\ UNCHANGED <<accounts, toggles>>
       ELSE IF get_account(accounts, id) = None
       THEN /\ call' = Done("set_account_enabled", Null, id, ErrAccountNotFound, 0, NoNet)
            /\ UNCHANGED <<accounts, toggles>>
       ELSE LET account == [get_account(accounts, id)[1] EXCEPT !.enabled = enabled]
            IN  \E out \in save_account(accounts, account) :
                  /\ accounts' = out.accounts
                  /\ toggles' = IF accounts' # accounts THEN toggles + 1 ELSE toggles
                  /\ toggles' <= MaxToggles
                  /\ call' = Done("set_account_enabled", Null, id,
                                  IF out.err = Null THEN Null ELSE ErrAccountNotUpdated,
                                  0, NoNet)
    /\ UNCHANGED <<configs, issued, callback, client, owed, auth_accounts, pending_auth, store, now, nextId,
                   nextToken, req, resp, race, redeemed, minted, del_failed>>

\* ServiceFactory::create_service of the daemon: the collaborator of a
\* capability, if the daemon has one
create_service(account, service) == IF service = "Calendar" THEN Some(service) ELSE None

\* an insert that sets every entry of the map
services_insert_all(services, service, enabled) ==
    [k \in DOMAIN services \cup {service} |-> enabled]

\* BTreeMap::insert on account.services
services_insert(services, service, enabled) ==
    [k \in DOMAIN services \cup {service} |-> IF k = service THEN enabled ELSE services[k]]

\* AccountsInterface::set_service_enabled up to the collaborator's hook
SetServiceEnabled(id, service_name, enabled) ==
    /\ call = Idle
    /\ IF Uuid_parse_str(id) = None
       THEN /\ call' = Done("set_service_enabled", Null, id, ErrUuid, 0, NoNet)
            /\ UNCHANGED <<accounts, toggles>>
       ELSE IF get_account(accounts, id) = None
       THEN /\ call' = Done("set_service_enabled", Null, id, ErrAccountNotFound, 0, NoNet)
            /\ UNCHANGED <<accounts, toggles>>
       ELSE IF Service_from_str(service_name) = Null
       THEN /\ call' = Done("set_service_enabled", Null, id, ErrInvalidService, 0, NoNet)
            /\ UNCHANGED <<accounts, toggles>>
       ELSE LET service == Service_from_str(service_name)
                account == [get_account(accounts, id)[1] EXCEPT
                              !.services = services_insert(@, service, enabled)]
            IN  \E out \in save_account(accounts, account) :
                  /\ accounts' = out.accounts
                  /\ toggles' = IF accounts' # accounts THEN toggles + 1 ELSE toggles
                  /\ toggles' <= MaxToggles
                  /\ call' = IF out.err # Null
                             THEN Done("set_service_enabled", Null, id, ErrCosmicConfig, 0, NoNet)
                             ELSE IF create_service(account, service) = None
                             THEN Done("set_service_enabled", Null, id, Null, 0, NoNet)
                             ELSE [op |-> "set_service_enabled", pc |-> "hook", arg |-> id,
                                   service |-> service, enabled |-> enabled]
    /\ UNCHANGED <<configs, issued, callback, client, owed, auth_accounts, pending_auth, store, now, nextId,
                   nextToken, req, resp, race, redeemed, minted, del_failed>>

\* service.add_service().await? / service.remove_service().await?
ServiceHook ==
    /\ call.op = "set_service_enabled" /\ call.pc = "hook"
    /\ \E e \in {Null, ErrHook} :
          call' = Done("set_service_enabled", Null, call.arg, e, 0, NoNet)
    /\ UNCHANGED <<configs, issued, callback, client, owed, accounts, auth_accounts, pending_auth, store, now,
                   nextId, nextToken, req, resp, race, redeemed, minted, del_failed, toggles>>

(* ---------------- token refresh ---------------- *)

\* the responses of the provider's token endpoint to a refresh-token grant
RefreshResponses ==
    { [access_token |-> "tok3", refresh_token |-> rt, expires_in |-> ei] :
        rt \in {Null, "r2"}, ei \in {None, Some(0), Some(1)} }

\* a test that takes every credential with an expiry for expired
is_expired_always(credentials, t) == credentials.expires_at # None

\* the test `expires_at <= Utc::now()` of ensure_credentials
is_expired(credentials, t) ==
    credentials.expires_at # None /\ credentials.expires_at[1] <= t

\* a write-back that takes the refresh token of the response as it is
refreshed_credentials_overwrite(credentials, token_result, t) ==
    [credentials EXCEPT
       !.access_token = token_result.access_token,
       !.refresh_token = token_result.refresh_token,
       !.expires_at = ExpiresAt(token_result.expires_in, t)]

\* the credential refresh_token writes back after a successful exchange
refreshed_credentials(credentials, token_result, t) ==
    [credentials EXCEPT
       !.access_token = token_result.access_token,
       !.refresh_token = IF token_result.refresh_token # Null
                         THEN token_result.refresh_token ELSE @,
       !.expires_at = ExpiresAt(token_result.expires_in, t)]

\* AccountsInterface::ensure_credentials: the loop over the registry starts
EnsureCredentials ==
    /\ call = Idle
    /\ call' = IF accounts = <<>>
               THEN Done("ensure_credentials", Null, 0, Null, 0, NoNet)
               ELSE [op |-> "ensure_credentials", pc |-> "check", i |-> 1, net |-> NoNet]
    /\ UNCHANGED <<configs, issued, callback, client, owed, accounts, auth_accounts, pending_auth, store, now,
                   nextId, nextToken, req, resp, race, redeemed, minted, del_failed, toggles>>

\* AuthManager::ensure_credentials for accounts[i], up to the second read of
\* the credential in refresh_token; pc = "ensured" is its return of Ok(()).
\* A read of the store fails when the secret service does, or finds nothing.
EnsureCheck ==
    /\ call.op = "ensure_credentials" /\ call.pc = "check"
    /\ LET account == accounts[call.i]
           fail(e) == Done("ensure_credentials", Null, account.id, e, 0, call.net)
       IN  \E found \in {None, get_account_credentials(store, account.id)} :
           call' =
             IF found = None THEN fail(ErrStorage)
             ELSE LET this == [op |-> "ensure_credentials", i |-> call.i, net |-> call.net,
                               id |-> account.id, provider |-> account.provider,
                               before |-> found[1], checked_at |-> now, refreshes |-> 0]
                  IN  IF is_expired(found[1], now)
                      THEN IF account.provider \notin configs
                           THEN fail(ErrInvalidProviderConfig) @@ this
                           ELSE [pc |-> "refresh_read"] @@ this
                      ELSE [pc |-> "ensured"] @@ this
    /\ UNCHANGED <<configs, issued, callback, client, owed, accounts, auth_accounts, pending_auth, store, now,
                   nextId, nextToken, req, resp, race, redeemed, minted, del_failed, toggles>>

\* a refresh_token that goes on to the exchange without a refresh token
RefreshRead_unchecked ==
    /\ call.op = "ensure_credentials" /\ call.pc = "refresh_read"
    /\ LET fail(e) == Done("ensure_credentials", Null, call.id, e, 0, call.net) @@ call
       IN  \E found \in {None, get_account_credentials(store, call.id)} :
           call' = IF found = None THEN fail(ErrStorage)
                   ELSE [call EXCEPT !.pc = "refresh_exchange"] @@ [credentials |-> found[1]]
    /\ UNCHANGED <<configs, issued, callback, client, owed, accounts, auth_accounts, pending_auth, store, now,
                   nextId, nextToken, req, resp, race, redeemed, minted, del_failed, toggles>>

\* refresh_token: storage.get_account_credentials(..).await? and the test
\* for a refresh token
RefreshRead ==
    /\ call.op = "ensure_credentials" /\ call.pc = "refresh_read"
    /\ LET fail(e) == Done("ensure_credentials", Null, call.id, e, 0, call.net) @@ call
       IN  \E found \in {None, get_account_credentials(store, call.id)} :
           call' = IF found = None THEN fail(ErrStorage)
                   ELSE IF found[1].refresh_token = Null THEN fail(ErrTokenExpired)
                   ELSE [call EXCEPT !.pc = "refresh_exchange"] @@ [credentials |-> found[1]]
    /\ UNCHANGED <<configs, issued, callback, client, owed, accounts, auth_accounts, pending_auth, store, now,
                   nextId, nextToken, req, resp, race, redeemed, minted, del_failed, toggles>>

\* refresh_token: exchange_refresh_token(..).request_async(..).await? and the
\* update of the credential in memory
RefreshExchange ==
    /\ call.op = "ensure_credentials" /\ call.pc = "refresh_exchange"
    /\ LET counted == [call EXCEPT !.net.refresh = @ + 1, !.refreshes = @ + 1]
       IN  \/ call' = Done("ensure_credentials", Null, call.id, ErrOAuth2, 0, counted.net)
                      @@ counted
           \/ \E r \in RefreshResponses :
                call' = [counted EXCEPT
                           !.pc = "refresh_store",
                           !.credentials = refreshed_credentials(@, r, now)] @@
                        [token_result |-> r, refreshed_at |-> now,
                         old_refresh_token |-> call.credentials.refresh_token]
    /\ UNCHANGED <<configs, issued, callback, client, owed, accounts, auth_accounts, pending_auth, store, now,
                   nextId, nextToken, req, resp, race, redeemed, minted, del_failed, toggles>>

\* refresh_token: storage.set_account_credentials(..).await?
RefreshStore ==
    /\ call.op = "ensure_credentials" /\ call.pc = "refresh_store"
    /\ \/ /\ call' = Done("ensure_credentials", Null, call.id, ErrStorage, 0, call.net) @@ call
          /\ UNCHANGED store
       \/ /\ store' = set_account_credentials(store, call.id, call.credentials)
          /\ call' = [call EXCEPT !.pc = "ensured"]
    /\ UNCHANGED <<configs, issued, callback, client, owed, accounts, auth_accounts, pending_auth, now, nextId,
                   nextToken, req, resp, race, redeemed, minted, del_failed, toggles>>

\* the loop goes on to the next account, or the call returns Ok(())
EnsureNext ==
    /\ call.op = "ensure_credentials" /\ call.pc = "ensured"
    /\ call' = IF call.i < Len(accounts)
               THEN [op |-> "ensure_credentials", pc |-> "check", i |-> call.i + 1,
                     net |-> call.net]
               ELSE Done("ensure_credentials", Null, 0, Null, 0, call.net)
    /\ UNCHANGED <<configs, issued, callback, client, owed, accounts, auth_accounts, pending_auth, store, now,
                   nextId, nextToken, req, resp, race, redeemed, minted, del_failed, toggles>>

\* AccountsInterface::get_access_token: the stored access token is returned
\* as it is read
GetAccessToken(id) ==
    /\ call = Idle
    /\ LET reply(e, v) == Done("get_access_token", Null, id, e, v, NoNet)
       IN  IF Uuid_parse_str(id) = None THEN call' = reply(ErrUuid, Null)
           ELSE IF get_account(accounts, id) = None
           THEN call' = reply(ErrAccountNotFound, Null)
           ELSE \E found \in {None, get_account_credentials(store, id)} :
                  call' = IF found = None THEN reply(ErrStorage, Null)
                          ELSE reply(Null, found[1].access_token) @@
                               [credentials |-> found[1], read_at |-> now]
    /\ UNCHANGED <<configs, issued, callback, client, owed, accounts, auth_accounts, pending_auth, store, now,
                   nextId, nextToken, req, resp, race, redeemed, minted, del_failed, toggles>>

(* ---------------- the clock ---------------- *)

Tick ==
    /\ now < MaxTime
    /\ now' = now + 1
    /\ UNCHANGED <<configs, issued, callback, client, owed, accounts, auth_accounts, pending_auth, store,
                   nextId, nextToken, req, call, resp, race, redeemed, minted, del_failed, toggles>>

(* ---------------- the daemon after start-up ---------------- *)

\* an account linked by an earlier run of the daemon, and its credential
PreAccount(id, provider, username) ==
    [id |-> id, provider |-> provider, display_name |-> "A", username |-> username,
     email |-> username, enabled |-> TRUE, services |-> Provider_services(provider)]

PreCredential(provider, refresh_token, expires_at) ==
    [access_token |-> "tok0", refresh_token |-> refresh_token, expires_at |-> expires_at,
     scope |-> Scopes(provider), token_type |-> "Bearer"]

\* AccountsInterface::new and AuthManager::new: both read the persisted
\* registry (empty, or one account of an earlier run)
Init ==
    /\ configs = {"Google"}
    /\ accounts \in {<<>>, <<PreAccount(1, "Google", "a@x")>>}
    /\ auth_accounts = accounts
    /\ store = [k \in Ids(accounts) |-> PreCredential("Google", "r0", Some(1))]
    /\ pending_auth = <<>>
    /\ now = 0
    /\ nextId = 2
    /\ nextToken = 1
    /\ req = [c \in Callers |-> NoReq]
    /\ call = Idle
    /\ resp = [c \in Callers |-> Null]
    /\ race = WrongToken
    /\ redeemed = {}
    /\ minted = {}
    /\ del_failed = FALSE
    /\ toggles = 0
    /\ client = NoClient
    /\ owed = {}
    /\ issued = <<>>
    /\ callback = NoCallback

TokenArgs == {WrongToken} \cup (1..(nextToken - 1))

Next ==
    \/ \E n \in ProviderNames : StartAuthentication(n)
    \/ \E t \in TokenArgs, code \in Codes : CompleteAuthentication(t, code)
    \/ TokenExchange
    \/ GetUserInfo
    \/ SetCredentials
    \/ SaveAccount
    \/ \E id \in IdArgs : RemoveAccount(id)
    \/ DeleteCredentials
    \/ \E id \in IdArgs, b \in BOOLEAN : SetAccountEnabled(id, b)
    \/ \E id \in IdArgs, s \in ServiceArgs, b \in BOOLEAN : SetServiceEnabled(id, s, b)
    \/ ServiceHook
    \/ Reply

Spec == Init /\ [][Next]_vars

(* ---------------- calls that wait on the bus ---------------- *)

NextRace ==
    \/ \E n \in ProviderNames : StartAuthentication(n)
    \/ \E c \in Callers : Issue(c)
    \/ \E c \in Callers : CompleteBegin(c)
    \/ TokenExchange
    \/ GetUserInfo
    \/ SetCredentials
    \/ SaveAccount
    \/ Reply

SpecRace == Init /\ [][NextRace]_vars

(* ---------------- a daemon with both provider configurations ---------------- *)

\* AuthManager::new finds the configuration file of every provider of
\* Provider::list; the registry is empty
InitFlows ==
    /\ configs = Providers
    /\ accounts = <<>>
    /\ auth_accounts = accounts
    /\ store = <<>>
    /\ pending_auth = <<>>
    /\ now = 0
    /\ nextId = 1
    /\ nextToken = 1
    /\ req = [c \in Callers |-> NoReq]
    /\ call = Idle
    /\ resp = [c \in Callers |-> Null]
    /\ race = WrongToken
    /\ redeemed = {}
    /\ minted = {}
    /\ del_failed = FALSE
    /\ toggles = 0
    /\ client = NoClient
    /\ owed = {}
    /\ issued = <<>>
    /\ callback = NoCallback

NextFlows ==
    \/ \E n \in ProviderNames : StartAuthentication(n)
    \/ \E t \in TokenArgs, code \in Codes : CompleteAuthentication(t, code)
    \/ TokenExchange
    \/ GetUserInfo
    \/ SetCredentials
    \/ SaveAccount
    \/ Reply

SpecFlows == InitFlows /\ [][NextFlows]_vars

(* ---------------- a daemon with linked accounts and a running clock ---------------- *)

PreCredentials(provider) ==
    { PreCredential(provider, rt, ea) : rt \in {Null, "r0"}, ea \in {None, Some(1), Some(2)} }

InitRefresh ==
    /\ configs = {"Google"}
    /\ \E p \in Providers :
          accounts \in { <<PreAccount(1, "Google", "a@x")>>,
                         <<PreAccount(1, "Google", "a@x"), PreAccount(2, p, "b@x")>> }
    /\ auth_accounts = accounts
    /\ \E have \in SUBSET Ids(accounts) :
          store \in [have -> PreCredentials("Google")]
    /\ pending_auth = <<>>
    /\ now = 0
    /\ nextId = 3
    /\ nextToken = 1
    /\ req = [c \in Callers |-> NoReq]
    /\ call = Idle
    /\ resp = [c \in Callers |-> Null]
    /\ race = WrongToken
    /\ redeemed = {}
    /\ minted = {}
    /\ del_failed = FALSE
    /\ toggles = 0
    /\ client = NoClient
    /\ owed = {}
    /\ issued = <<>>
    /\ callback = NoCallback

NextRefresh ==
    \/ Tick
    \/ EnsureCredentials
    \/ EnsureCheck
    \/ RefreshRead
    \/ RefreshExchange
    \/ RefreshStore
    \/ EnsureNext
    \/ \E id \in IdArgs : GetAccessToken(id)
    \/ Reply

SpecRefresh == InitRefresh /\ [][NextRefresh]_vars

(* ---------------- notifications ---------------- *)

\* the notification a successful mutating call is to be followed by
Notification(c) ==
    IF c.err # Null THEN {}
    ELSE IF c.op \in {"set_account_enabled", "set_service_enabled"}
    THEN {<<"AccountChanged", c.arg>>}
    ELSE IF c.op = "remove_account" THEN {<<"AccountRemoved", c.arg>>}
    ELSE IF c.op = "complete_authentication" THEN {<<"AccountAdded", c.value>>}
    ELSE {}

\* the reply goes to a caller that used the interface directly (AccountsProxy
\* or any other D-Bus client): no method of the interface emits a signal
ProxyReply ==
    /\ call # Idle /\ call.pc = "done"
    /\ call' = Idle
    /\ owed' = owed \cup Notification(call)
    /\ UNCHANGED <<configs, issued, callback, client, accounts, auth_accounts, pending_auth, store, now,
                   nextId, nextToken, req, resp, race, redeemed, minted, del_failed, toggles>>

\* the reply goes to a caller that used AccountsClient: set_account_enabled
\* and set_service_enabled go on to emit_account_changed, remove_account and
\* complete_authentication only return
ClientReply ==
    /\ call # Idle /\ call.pc = "done"
    /\ call.op \in {"set_account_enabled", "set_service_enabled", "remove_account",
                    "complete_authentication"}
    /\ client = NoClient
    /\ call' = Idle
    /\ owed' = owed \cup Notification(call)
    /\ client' = IF call.err = Null
                    /\ call.op \in {"set_account_enabled", "set_service_enabled"}
                 THEN <<"AccountChanged", call.arg>>
                 ELSE NoClient
    /\ UNCHANGED <<configs, issued, callback, accounts, auth_accounts, pending_auth, store, now,
                   nextId, nextToken, req, resp, race, redeemed, minted, del_failed, toggles>>

\* the reply goes to handle_callback: account_added after a success,
\* account_exists after a failure
CallbackReply ==
    /\ call # Idle /\ call.pc = "done"
    /\ call.op = "complete_authentication"
    /\ client = NoClient
    /\ call' = Idle
    /\ owed' = owed \cup Notification(call)
    /\ client' = IF call.err = Null THEN <<"AccountAdded", call.value>>
                 ELSE <<"AccountExists", BadId>>
    /\ callback' = IF callback.pc = "wait"
                   THEN [callback EXCEPT !.pc = "responded",
                                         !.status = IF call.err = Null THEN 200 ELSE 500]
                   ELSE callback
    /\ UNCHANGED <<configs, issued, accounts, auth_accounts, pending_auth, store, now,
                   nextId, nextToken, req, resp, race, redeemed, minted, del_failed, toggles>>

\* AccountsInterface::emit_account_added / emit_account_changed /
\* emit_account_exists, called by the client: the signal goes out, or the
\* emitter fails
ClientEmit ==
    /\ client # NoClient
    /\ call = Idle
    /\ client' = NoClient
    /\ \/ owed' = owed \ {client}
       \/ owed' = owed
    /\ UNCHANGED <<configs, issued, callback, accounts, auth_accounts, pending_auth, store, now,
                   nextId, nextToken, req, call, resp, race, redeemed, minted, del_failed,
                   toggles>>

MaxNotifyStarts == 1    \* StartAuthentication calls where notifications are followed

NextNotify ==
    \/ \E n \in ProviderNames : nextToken <= MaxNotifyStarts /\ StartAuthentication(n)
    \/ \E t \in TokenArgs, code \in Codes : CompleteAuthentication(t, code)
    \/ TokenExchange
    \/ GetUserInfo
    \/ SetCredentials
    \/ SaveAccount
    \/ \E id \in IdArgs : RemoveAccount(id)
    \/ DeleteCredentials
    \/ \E id \in IdArgs, b \in BOOLEAN : SetAccountEnabled(id, b)
    \/ \E id \in IdArgs, s \in ServiceArgs, b \in BOOLEAN : SetServiceEnabled(id, s, b)
    \/ ServiceHook
    \/ ProxyReply
    \/ ClientReply
    \/ CallbackReply
    \/ ClientEmit

\* a reply that is ready is sent, and a client that has its reply goes on to
\* its next request
SpecNotify ==
    /\ Init /\ [][NextNotify]_vars
    /\ WF_vars(NextNotify)
    /\ SF_vars(ClientEmit)

(* ---------------- main.rs: the redirect callback ---------------- *)

\* the query of a redirect: code, state and error are each present or not
CallbackParams ==
    [code : {None} \cup {Some(c) : c \in Codes},
     state : {None} \cup {Some(t) : t \in TokenArgs},
     error : {None, Some("access_denied")}]

\* what handle_callback has answered, or is about to do, for a redirect
Served(params, connected, pc, status) ==
    [pc |-> pc, params |-> params, connected |-> connected, status |-> status,
     calls |-> <<>>]

\* a handler that goes by code and state alone
HandleCallback_ignore_error(params) ==
    /\ callback.pc \in {"none", "responded"}
    /\ \E connected \in BOOLEAN :
          callback' =
             IF ~connected THEN Served(params, connected, "responded", 500)
             ELSE IF params.code # None /\ params.state # None
             THEN Served(params, connected, "call", 0)
             ELSE Served(params, connected, "responded", 400)
    /\ UNCHANGED <<configs, issued, client, owed, accounts, auth_accounts, pending_auth,
                   store, now, nextId, nextToken, req, call, resp, race, redeemed, minted,
                   del_failed, toggles>>

\* handle_callback up to its call of complete_authentication: the bus client
\* is created (or not: the answer is 500), then the query is examined
HandleCallback(params) ==
    /\ callback.pc \in {"none", "responded"}
    /\ \E connected \in BOOLEAN :
          callback' =
             IF ~connected THEN Served(params, connected, "responded", 500)
             ELSE IF params.error # None THEN Served(params, connected, "responded", 400)
             ELSE IF params.code # None /\ params.state # None
             THEN Served(params, connected, "call", 0)
             ELSE Served(params, connected, "responded", 400)
    /\ UNCHANGED <<configs, issued, client, owed, accounts, auth_accounts, pending_auth,
                   store, now, nextId, nextToken, req, call, resp, race, redeemed, minted,
                   del_failed, toggles>>

\* client.complete_authentication(&csrf_token, &authorization_code): the
\* interface takes up the call of the callback
CallbackCall ==
    /\ callback.pc = "call"
    /\ LET authorization_code == callback.params.code[1]
           csrf_token == callback.params.state[1]
       IN  /\ complete_auth_flow_begin("callback", csrf_token, authorization_code)
           /\ callback' = [callback EXCEPT
                             !.pc = "wait",
                             !.calls = Append(@, [csrf_token |-> csrf_token,
                                                  authorization_code |-> authorization_code])]
    /\ UNCHANGED <<req, resp>>

\* the reply to a StartAuthentication call
StartReply == call.op = "start_authentication" /\ Reply

NextCallback ==
    \/ \E n \in ProviderNames : nextToken <= MaxNotifyStarts /\ StartAuthentication(n)
    \/ \E params \in CallbackParams : HandleCallback(params)
    \/ CallbackCall
    \/ TokenExchange
    \/ GetUserInfo
    \/ SetCredentials
    \/ SaveAccount
    \/ StartReply
    \/ CallbackReply
    \/ ClientEmit

SpecCallback == Init /\ [][NextCallback]_vars

(* ======================= properties ======================= *)

IsDone(op) == call # Idle /\ call.op = op /\ call.pc = "done"

\* the step in which the interface takes up a CompleteAuthentication call
TakesUpComplete == call = Idle /\ call' # Idle /\ call'.op = "complete_authentication"

\* C1: a state token is single-use.  Once a CompleteAuthentication call has
\* matched a pending authorization with token t, every later
\* CompleteAuthentication with t fails with InvalidState ("Invalid CSRF
\* token"), whatever became of the first call.
C1_SingleUse ==
    [][ TakesUpComplete /\ call'.arg \in redeemed
          => call'.pc = "done" /\ call'.err = ErrInvalidCsrf ]_vars

\* a second call with a token that an earlier call redeemed has failed
C1_Witness ==
    /\ IsDone("complete_authentication")
    /\ call.arg \in redeemed
    /\ call.err = ErrInvalidCsrf

\* C2: of two CompleteAuthentication calls that wait on the bus with the same
\* pending token, exactly one passes the remove-and-consume step and the
\* other fails with InvalidState; the token yields at most one credential and
\* account.
C2_ExactlyOnePasses ==
    /\ Cardinality(minted) <= 1
    /\ (race # WrongToken /\ \A c \in Callers : req[c] = NoReq)
          => \E c \in Callers :
                /\ resp[c] = "passed"
                /\ \A d \in Callers \ {c} : resp[d] = "InvalidState"

\* both racing calls have been taken up and one account came of the token
C2_Witness ==
    /\ race # WrongToken
    /\ \A c \in Callers : req[c] = NoReq
    /\ \E c \in Callers : resp[c] = "InvalidState"
    /\ Cardinality(minted) = 1
    /\ call = Idle

\* C7: CompleteAuthentication with a token that matches no pending
\* authorization fails with InvalidState, consumes no pending entry, changes
\* neither the registry nor the credential store and makes no network call.
C7_WrongTokenIntact ==
    [][ TakesUpComplete /\ call'.arg \notin DOMAIN pending_auth
          => /\ call'.pc = "done" /\ call'.err = ErrInvalidCsrf
             /\ pending_auth' = pending_auth
             /\ accounts' = accounts
             /\ store' = store
             /\ call'.net = NoNet ]_vars

\* a call with a token that was never issued has failed while an
\* authorization is pending
C7_Witness ==
    /\ IsDone("complete_authentication")
    /\ call.arg = WrongToken
    /\ call.err = ErrInvalidCsrf
    /\ pending_auth # <<>>

\* the token request or the identity request of the call in progress fails
ExchangeFails ==
    /\ call # Idle /\ call.op = "complete_authentication" /\ call.pc = "exchange"
    /\ call' # call /\ call'.pc # "userinfo"
IdentityFails ==
    /\ call # Idle /\ call.op = "complete_authentication" /\ call.pc = "userinfo"
    /\ call' # call /\ call'.pc = "done" /\ call'.err \in {ErrNetwork, ErrUserInfo}

\* C8: when the token exchange or the identity fetch fails, the call returns
\* an error, the pending authorization stays consumed, no account is added,
\* and neither endpoint has been called more than once.
C8_NetworkFailureAborts ==
    [][ ExchangeFails \/ IdentityFails
          => /\ call'.pc = "done" /\ call'.err # Null
             /\ call.arg \notin DOMAIN pending_auth'
             /\ accounts' = accounts
             /\ call'.net.exchange <= 1 /\ call'.net.userinfo <= 1 ]_vars

\* the identity fetch of a call has failed after one token exchange
C8_Witness ==
    /\ IsDone("complete_authentication")
    /\ call.err \in {ErrNetwork, ErrUserInfo}
    /\ call.net.exchange = 1 /\ call.net.userinfo = 1
    /\ call.arg \in redeemed /\ call.arg \notin DOMAIN pending_auth

\* C3: no two accounts of the registry share (provider, username), after any
\* sequence of StartAuthentication, CompleteAuthentication, RemoveAccount,
\* SetAccountEnabled and SetServiceEnabled calls from a registry without
\* duplicates; a flow that resolves to an identity already in the registry is
\* rejected with AccountAlreadyExists.
C3_UniqueIdentity ==
    \A i, j \in 1..Len(accounts) :
        i # j => ~(/\ accounts[i].provider = accounts[j].provider
                   /\ accounts[i].username = accounts[j].username)

\* no admission or removal is in progress and no deletion has failed
C4_Quiescent ==
    /\ ~del_failed
    /\ call = Idle \/ call.pc = "done"
          \/ call.op \notin {"complete_authentication", "remove_account"}

\* C4: when no CompleteAuthentication or RemoveAccount call is in progress and
\* no credential deletion has failed, every account of the registry has a
\* credential in the store under its id; and an account enters the registry
\* only after its credential is in the store.
C4_CredentialForEveryAccount ==
    /\ [](C4_Quiescent => \A id \in Ids(accounts) : id \in DOMAIN store)
    /\ [][\A id \in Ids(accounts') \ Ids(accounts) : id \in DOMAIN store]_vars

\* C5: when CompleteAuthentication returns the account id i, GetAccount(i)
\* returns the admitted record (provider of the pending authorization,
\* identity from the identity fetch, enabled, the provider's default
\* services) and the store holds under i the access token of the exchange,
\* expiring at the exchange time plus expires_in (unset without expires_in).
C5_AdmittedRecord ==
    (IsDone("complete_authentication") /\ call.err = Null) =>
        LET i == call.value
        IN  /\ GetAccount(i).err = Null
            /\ GetAccount(i).value =
                  Some([id |-> i, provider |-> call.provider,
                        display_name |-> call.user_info.display_name,
                        username |-> call.user_info.username,
                        email |-> call.user_info.email,
                        enabled |-> TRUE,
                        services |-> Provider_services(call.provider)])
            /\ i \in DOMAIN store
            /\ store[i].access_token = call.token_result.access_token
            /\ store[i].expires_at =
                  IF call.token_result.expires_in = None THEN None
                  ELSE Some(call.exchanged_at + call.token_result.expires_in[1])

\* C6: when RemoveAccount(id) returns success, GetAccount(id) fails with
\* NotFound, ListAccounts does not contain id, and the credential store holds
\* no credential for id.
C6_RemovedIsGone ==
    (IsDone("remove_account") /\ call.err = Null) =>
        /\ GetAccount(call.arg).err = ErrAccountNotFound
        /\ \A k \in 1..Len(ListAccounts) : ListAccounts[k].id # call.arg
        /\ call.arg \notin DOMAIN store

\* the ensure_credentials call is past the expiry test of one account
Checked == call # Idle /\ call.op = "ensure_credentials" /\ "before" \in DOMAIN call

\* expires_at is unset or strictly after t
C9_NotExpired(credentials, t) ==
    credentials.expires_at = None \/ credentials.expires_at[1] > t

\* C9: EnsureFreshCredential on a credential whose expires_at is unset or
\* strictly after the current time performs no token-endpoint call and leaves
\* the stored credential unchanged, so that calling it again does the same.
C9_IdempotentWhenFresh ==
    /\ [](Checked /\ C9_NotExpired(call.before, call.checked_at) =>
             /\ call.pc = "ensured"
             /\ call.refreshes = 0
             /\ store[call.id] = call.before)
    /\ [][ (/\ call # Idle /\ call.op = "ensure_credentials" /\ call.pc = "check"
            /\ call' # call
            /\ accounts[call.i].id \in DOMAIN store
            /\ C9_NotExpired(store[accounts[call.i].id], now))
           => /\ store' = store
              /\ call'.pc = "ensured" \/ (call'.pc = "done" /\ call'.err = ErrStorage)
              /\ call'.net = call.net ]_vars

\* the clock has advanced, the credential is still not expired, and the call
\* has returned for it without a refresh
C9_Witness ==
    /\ Checked /\ call.pc = "ensured" /\ call.refreshes = 0
    /\ call.before.expires_at = Some(2) /\ call.checked_at = 1
    /\ store[call.id] = call.before

\* the credential was found expired (equality included) with a refresh token
C10_Expired ==
    /\ Checked /\ call.pc \in {"ensured", "done"}
    /\ call.before.expires_at # None
    /\ call.before.expires_at[1] <= call.checked_at
    /\ call.before.refresh_token # Null

C11_ExpiredNoRefreshToken ==
    /\ Checked
    /\ call.before.expires_at # None
    /\ call.before.expires_at[1] <= call.checked_at
    /\ call.before.refresh_token = Null

\* C11 as stated: an expired credential without a refresh token makes
\* EnsureFreshCredential fail with TokenExpired, with no token-endpoint call
\* and the stored credential untouched.
C11_AsStated ==
    (C11_ExpiredNoRefreshToken /\ call.pc = "done") =>
        /\ call.err = ErrTokenExpired
        /\ call.refreshes = 0
        /\ store[call.id] = call.before

\* C11: an expired credential (equality included) without a refresh token
\* makes EnsureFreshCredential fail, with no token-endpoint call and the
\* stored credential untouched; the failure is InvalidProviderConfig when the
\* account's provider has no configuration, and otherwise TokenExpired unless
\* the second read of the credential fails with a storage error.
C11_NoRefreshTokenFails ==
    C11_ExpiredNoRefreshToken =>
        /\ call.pc \in {"refresh_read", "done"}
        /\ call.refreshes = 0
        /\ store[call.id] = call.before
        /\ call.pc = "done" =>
              IF call.provider \in configs
              THEN call.err \in {ErrTokenExpired, ErrStorage}
              ELSE call.err = ErrInvalidProviderConfig

\* the call failed with TokenExpired on a credential that expires at the
\* very instant of the check
C11_Witness ==
    /\ C11_ExpiredNoRefreshToken /\ call.pc = "done"
    /\ call.err = ErrTokenExpired
    /\ call.before.expires_at[1] = call.checked_at
    /\ store[call.id] = call.before

\* C12: GetAccessToken(id) never hands out the token of an expired
\* credential: when the credential it reads has an expires_at at or before
\* the current time, a refresh-token exchange is made before the call
\* returns a token.
C12_NoExpiredToken ==
    (IsDone("get_access_token") /\ call.err = Null) =>
        \/ call.credentials.expires_at = None
        \/ call.credentials.expires_at[1] > call.read_at
        \/ call.net.refresh >= 1

\* the refresh exchange of the account under check has failed
C13_ExchangeFailed ==
    /\ Checked /\ call.pc = "done"
    /\ call.refreshes >= 1
    /\ "token_result" \notin DOMAIN call

\* C13: a failed refresh-token exchange is surfaced as TokenRefreshFailed,
\* is not retried, and leaves the stored credential as it was.
C13_RefreshFailureSurfaced ==
    C13_ExchangeFailed =>
        /\ call.err = ErrTokenRefreshFailed
        /\ call.refreshes = 1
        /\ store[call.id] = call.before

\* SetAccountEnabled or SetServiceEnabled is taken up with a well-formed id
\* that is not in the registry
C14_TakesUpAbsentId ==
    /\ call = Idle /\ call' # Idle
    /\ call'.op \in {"set_account_enabled", "set_service_enabled"}
    /\ call'.arg # BadId
    /\ call'.arg \notin Ids(accounts)

\* C14: SetAccountEnabled and SetServiceEnabled with a well-formed id that is
\* not in the registry fail with AccountNotFound and leave the registry as it
\* is; no record is created for the id.
C14_AbsentIdNotFound ==
    [][ C14_TakesUpAbsentId =>
          /\ call'.pc = "done"
          /\ call'.err = ErrAccountNotFound
          /\ accounts' = accounts
          /\ call'.arg \notin Ids(accounts') ]_vars

\* SetAccountEnabled was refused for the id of an account that was removed
\* in this run, while another account is in the registry
C14_Witness ==
    /\ IsDone("set_account_enabled") /\ call.err = ErrAccountNotFound
    /\ call.arg = 1 /\ auth_accounts # <<>>
    /\ 1 \notin Ids(accounts) /\ accounts # <<>>

\* C15: RemoveAccount(id) with a well-formed id that is not in the registry
\* fails with NotFound and does not report success.
C15_RemoveAbsentNotFound ==
    (IsDone("remove_account") /\ call.arg # BadId /\ ~call.present) =>
        call.err = ErrAccountNotFound

\* RemoveAccount has deleted the registry record and the deletion of the
\* credential then fails: the credential is still in the store
C16_PartialRemoval ==
    /\ call # Idle /\ call.op = "remove_account"
    /\ call.pc = "delete_credentials"
    /\ call.present /\ call.arg \notin Ids(accounts)
    /\ call' # call
    /\ call.arg \in DOMAIN store /\ store' = store

\* C16: when RemoveAccount(id) has deleted the registry record and the
\* deletion of the credential then fails, the call returns an error and the
\* record is not restored: GetAccount(id) fails with NotFound afterwards.
C16_PartialRemovalReported ==
    /\ [][ C16_PartialRemoval =>
             /\ call'.pc = "done" /\ call'.err # Null
             /\ accounts' = accounts ]_vars
    /\ []((IsDone("remove_account") /\ call.present /\ call.err = ErrCredentialStorage
             /\ call.arg \notin Ids(accounts))
          => GetAccount(call.arg).err = ErrAccountNotFound)

\* the removal of the account the daemon started with ended in an error with
\* the record gone and the credential still in the store
C16_Witness ==
    /\ IsDone("remove_account") /\ call.present
    /\ call.err = ErrCredentialStorage
    /\ call.arg = 1 /\ 1 \notin Ids(accounts) /\ 1 \in DOMAIN store
    /\ GetAccount(1).err = ErrAccountNotFound

\* the notifications a mutating operation can be followed by
Notifications ==
    {"AccountChanged", "AccountRemoved", "AccountAdded"} \X
       ({UnknownId} \cup (1..(MaxNotifyStarts + 1)))

\* C17: every mutating operation that succeeds is eventually followed by its
\* notification for the same account id (AccountChanged for SetAccountEnabled
\* and SetServiceEnabled, AccountRemoved for RemoveAccount, AccountAdded for
\* CompleteAuthentication), whoever the caller is.
C17_MutationsNotified ==
    \A n \in Notifications : (n \in owed) ~> (n \notin owed)

\* the credential of accounts[k] is expired at time t and can be refreshed
C18_Refreshable(k, t) ==
    LET id == accounts[k].id
    IN  /\ id \in DOMAIN store
        /\ accounts[k].provider \in configs
        /\ store[id].refresh_token # Null
        /\ store[id].expires_at # None
        /\ store[id].expires_at[1] <= t

\* C18: when EnsureCredentials runs over all accounts and the check or the
\* refresh of one account fails, every other account whose credential is
\* expired and refreshable is still refreshed by that call: none of the
\* accounts that come after the failing one is left with such a credential.
C18_FailureDoesNotBlockOthers ==
    (IsDone("ensure_credentials") /\ call.err # Null /\ "checked_at" \in DOMAIN call) =>
        \A k \in (call.i + 1)..Len(accounts) : ~C18_Refreshable(k, call.checked_at)

\* the account id the registry write of this step is for
C19_Target == IF call = Idle THEN call'.arg ELSE call.account.id

C20_InputError ==
    /\ call = Idle /\ call' # Idle
    /\ \/ /\ call'.op = "start_authentication"
          /\ call'.arg \notin {"google", "Google"}
       \/ /\ call'.op \in {"remove_account", "set_account_enabled", "set_service_enabled"}
          /\ call'.arg = BadId
       \/ /\ call'.op = "set_service_enabled"
          /\ call'.arg \in Ids(accounts)
          /\ \E s \in ServiceArgs, b \in BOOLEAN :
                /\ s \notin {"email", "calendar", "contacts", "todo"}
                /\ SetServiceEnabled(call'.arg, s, b)

\* C20: input errors are rejected without any state change:
\* StartAuthentication with an unknown provider name or a provider without
\* configuration, SetServiceEnabled with an unknown capability name, and an
\* id-taking operation with a malformed id return an error, leave the pending
\* table, the registry and the credential store as they are, and call no
\* collaborator hook.
C20_InputErrorsRejected ==
    /\ [][ C20_InputError =>
             /\ call'.pc = "done" /\ call'.err # Null
             /\ pending_auth' = pending_auth
             /\ accounts' = accounts
             /\ store' = store ]_vars
    /\ [](GetAccount(BadId).err = ErrUuid)

\* SetServiceEnabled was refused for an unknown capability name on an account
\* of the registry, with an authorization pending
C20_Witness ==
    /\ IsDone("set_service_enabled") /\ call.err = ErrInvalidService
    /\ call.arg \in Ids(accounts)
    /\ pending_auth # <<>>

\* a StartAuthentication call is taken up and succeeds
C21_StartSucceeds ==
    /\ call = Idle /\ call' # Idle
    /\ call'.op = "start_authentication" /\ call'.err = Null

\* C21: a successful StartAuthentication(provider) adds exactly one pending
\* authorization, under a state token that was never issued before, with that
\* provider and a PKCE verifier no earlier authorization had; it leaves every
\* pending authorization as it was (so still redeemable), leaves the registry
\* and the credential store unchanged and makes no network call.  Several
\* authorizations, also for one provider, are pending at once.
C21_OnePendingAdded ==
    [][ C21_StartSucceeds =>
          LET t == call'.value
          IN  /\ t \notin DOMAIN pending_auth /\ t \notin DOMAIN issued
              /\ DOMAIN pending_auth' = DOMAIN pending_auth \cup {t}
              /\ pending_auth'[t].provider = Provider_from_str(call'.arg)
              /\ \A k \in DOMAIN issued :
                    issued[k].pkce_verifier # pending_auth'[t].pkce_verifier
              /\ \A k \in DOMAIN pending_auth : pending_auth'[k] = pending_auth[k]
              /\ accounts' = accounts
              /\ store' = store
              /\ call'.net = NoNet ]_vars

\* a second authorization for the same provider was started while the first
\* is still pending
C21_Witness ==
    /\ IsDone("start_authentication") /\ call.err = Null
    /\ call.value = 2
    /\ DOMAIN pending_auth = {1, 2}
    /\ pending_auth[1].provider = pending_auth[2].provider
    /\ pending_auth[1].pkce_verifier # pending_auth[2].pkce_verifier

\* C25: with several authorizations pending, CompleteAuthentication(t, code)
\* makes the token exchange for the provider and with the PKCE verifier that
\* the StartAuthentication which issued t recorded, never with those of
\* another pending authorization; the account it creates has that provider.
C25_OwnProviderAndVerifier ==
    /\ []((call # Idle /\ call.op = "complete_authentication" /\ "provider" \in DOMAIN call)
           => /\ call.arg \in DOMAIN issued
              /\ call.provider = issued[call.arg].provider
              /\ "pkce_verifier" \in DOMAIN call
                    => call.pkce_verifier = issued[call.arg].pkce_verifier
              /\ "pkce_used" \in DOMAIN call
                    => call.pkce_used = issued[call.arg].pkce_verifier
              /\ "account" \in DOMAIN call
                    => call.account.provider = issued[call.arg].provider)
    /\ [][ \A i \in 1..Len(accounts') :
             accounts'[i].id \notin Ids(accounts)
                => accounts'[i].provider = issued[call.arg].provider ]_vars

\* the account of the first authorization (Google) was admitted while the
\* second one (Microsoft) was pending
C25_Witness ==
    /\ IsDone("complete_authentication") /\ call.err = Null
    /\ call.arg = 1 /\ issued[1].provider = "Google" /\ call.pkce_used = 1
    /\ 2 \in DOMAIN pending_auth /\ pending_auth[2].provider = "Microsoft"
    /\ \E i \in 1..Len(accounts) : accounts[i].id = call.value /\ accounts[i].provider = "Google"

\* C22: when CompleteAuthentication is rejected with AccountAlreadyExists the
\* registry and the credential store are as they were when the call began:
\* the rejection follows the identity fetch at once, and no step of the call
\* up to and including the rejection writes the registry or the store, so no
\* account is added, no credential is written for the rejected account and
\* the credential of the existing account is not overwritten.
C22_RejectionChangesNothing ==
    /\ [][ (/\ call' # Idle /\ call' # call
            /\ call'.op = "complete_authentication"
            /\ \/ call'.pc \in {"exchange", "userinfo"}
               \/ call'.pc = "done" /\ call'.err = ErrAccountAlreadyExists)
           => /\ accounts' = accounts
              /\ store' = store
              /\ nextId' = nextId ]_vars
    /\ [][ (/\ call' # Idle /\ call' # call
            /\ call'.op = "complete_authentication"
            /\ call'.pc = "done" /\ call'.err = ErrAccountAlreadyExists)
           => /\ call # Idle /\ call.pc = "userinfo"
              /\ call'.net.exchange = 1 ]_vars

\* a flow that resolved to the identity of the account the daemon started
\* with was rejected after a token exchange, and that account still has the
\* credential it had
C22_Witness ==
    /\ IsDone("complete_authentication") /\ call.err = ErrAccountAlreadyExists
    /\ call.net.exchange = 1
    /\ Ids(accounts) = {1} /\ DOMAIN store = {1}
    /\ store[1] = PreCredential("Google", "r0", Some(1))
    /\ nextId = 2

\* the registry differs from the one before the step at most in account id,
\* and there at most in the enabled flag (field = "enabled") or in the entry
\* for capability c of the capability map (field = "services")
C23_OnlyChanges(id, field, c) ==
    /\ Len(accounts') = Len(accounts)
    /\ \A i \in 1..Len(accounts) :
          IF accounts[i].id # id THEN accounts'[i] = accounts[i]
          ELSE IF field = "enabled"
          THEN [accounts'[i] EXCEPT !.enabled = accounts[i].enabled] = accounts[i]
          ELSE /\ [accounts'[i] EXCEPT !.services = accounts[i].services] = accounts[i]
               /\ DOMAIN accounts'[i].services \subseteq DOMAIN accounts[i].services \cup {c}
               /\ \A k \in DOMAIN accounts[i].services \ {c} :
                     /\ k \in DOMAIN accounts'[i].services
                     /\ accounts'[i].services[k] = accounts[i].services[k]

\* C23: SetServiceEnabled(id, c, v) changes only the entry for capability c
\* of account id and never that account's enabled flag; SetAccountEnabled(id,
\* b) changes only the enabled flag of account id and never its capability
\* map.  Neither changes another account, the pending table or the
\* credential store, in any of its steps.
C23_OnlyOwnField ==
    [][ /\ (call = Idle /\ call' # Idle /\ call'.op = "set_account_enabled")
             => /\ pending_auth' = pending_auth /\ store' = store
                /\ C23_OnlyChanges(call'.arg, "enabled", Null)
        /\ (call = Idle /\ call' # Idle /\ call'.op = "set_service_enabled")
             => /\ pending_auth' = pending_auth /\ store' = store
                /\ accounts' # accounts =>
                      \A s \in ServiceArgs, v \in BOOLEAN :
                         SetServiceEnabled(call'.arg, s, v)
                            => C23_OnlyChanges(call'.arg, "services", Service_from_str(s))
        /\ (call # Idle /\ call.op = "set_service_enabled" /\ call' # call)
             => /\ pending_auth' = pending_auth /\ store' = store
                /\ accounts' = accounts ]_vars

\* the calendar of one account was switched on: its other capability and its
\* enabled flag are as they were, with another account in the registry and
\* an authorization pending
C23_Witness ==
    /\ IsDone("set_service_enabled") /\ call.err = Null
    /\ pending_auth # <<>>
    /\ Len(accounts) = 2
    /\ \E i \in 1..Len(accounts) :
          /\ accounts[i].id = call.arg
          /\ accounts[i].services["Calendar"] /\ ~accounts[i].services["Email"]
          /\ accounts[i].enabled

\* the flag the registry holds for capability c of account id is v
C24_Persisted(id, c, v) ==
    \E i \in 1..Len(accounts) :
       /\ accounts[i].id = id
       /\ c \in DOMAIN accounts[i].services
       /\ accounts[i].services[c] = v

\* C24: SetServiceEnabled(id, c, v) has persisted the flag when it invokes
\* the collaborator's add_service / remove_service hook, and when the hook
\* fails the call reports an error and the registry keeps the value v.
C24_PersistedBeforeHook ==
    /\ []((call # Idle /\ call.op = "set_service_enabled" /\ call.pc = "hook")
           => C24_Persisted(call.arg, call.service, call.enabled))
    /\ [][ (/\ call # Idle /\ call.op = "set_service_enabled" /\ call.pc = "hook"
            /\ call' # call /\ call'.err # Null)
           => /\ call'.pc = "done"
              /\ accounts' = accounts
              /\ C24_Persisted(call.arg, call.service, call.enabled) ]_vars

\* account id is the one minted by the admission in progress
C27_BeingAdmitted(id) ==
    /\ call # Idle /\ call.op = "complete_authentication" /\ call.pc = "save"
    /\ call.account.id = id

\* C27: account ids are never reused and removed records never come back:
\* when RemoveAccount(id) returns success GetAccount(id) fails with NotFound,
\* and it goes on failing in every later state, whatever operations follow:
\* no step puts an id that was minted before and is not in the registry
\* (back) into it, an admission enters only the id it has minted itself.
C27_NeverResurrected ==
    /\ []((IsDone("remove_account") /\ call.err = Null /\ call.arg # BadId)
           => GetAccount(call.arg).err = ErrAccountNotFound)
    /\ [][ \A id \in {UnknownId} \cup (1..(nextId - 1)) :
             (GetAccount(id).err = ErrAccountNotFound /\ ~C27_BeingAdmitted(id))
                => id \notin Ids(accounts') ]_vars

\* C28: the duplicate check of CompleteAuthentication reflects the current
\* registry: a flow is rejected with AccountAlreadyExists only when the
\* registry holds an account with its (provider, username), so that a flow
\* for the identity of a removed account is admitted, also when that account
\* was in the registry when the daemon started.
C28_DuplicateCheckIsCurrent ==
    (IsDone("complete_authentication") /\ call.err = ErrAccountAlreadyExists)
        => account_exists(accounts, call.user_info.username, call.provider)

\* C29: a CompleteAuthentication that fails on the registry write, after the
\* credential has been written, leaves no credential in the store for the
\* account id that was not committed.
C29_NoOrphanCredential ==
    [][ (/\ call # Idle /\ call.op = "complete_authentication" /\ call.pc = "save"
         /\ call' # call /\ call'.err # Null)
        => (call.account.id \in DOMAIN store' => call.account.id \in Ids(accounts')) ]_vars

\* handle_callback examines a redirect
C26_Examines ==
    /\ callback.pc \in {"none", "responded"}
    /\ callback' # callback

\* the redirect carries no error parameter and carries both code and state
C26_WellFormed(params) ==
    params.error = None /\ params.code # None /\ params.state # None

\* C26 as stated: the redirect callback calls CompleteAuthentication if and
\* only if the redirect carries no error parameter and carries both code and
\* state.
C26_AsStated ==
    [][ C26_Examines =>
          (callback'.pc = "call" <=> C26_WellFormed(callback'.params)) ]_vars

\* C26: the redirect callback calls CompleteAuthentication if and only if it
\* could create its bus client, the redirect carries no error parameter and
\* it carries both code and state; it then passes (state, code) unmodified,
\* exactly once.  When the client could not be created, the provider reports
\* an error (even with code and state present) or a parameter is missing,
\* CompleteAuthentication is not called: the pending authorization is not
\* consumed and the registry and the credential store are unchanged.
C26_CallsOnlyWellFormed ==
    /\ [][ C26_Examines =>
             /\ callback'.pc = "call"
                   <=> (callback'.connected /\ C26_WellFormed(callback'.params))
             /\ callback'.pc # "call" => callback'.pc = "responded"
             /\ callback'.calls = <<>>
             /\ call' = call
             /\ pending_auth' = pending_auth
             /\ accounts' = accounts
             /\ store' = store ]_vars
    /\ [][ (callback.pc = "call" /\ callback' # callback) =>
             /\ call = Idle /\ call' # Idle
             /\ call'.op = "complete_authentication"
             /\ call'.arg = callback.params.state[1]
             /\ call'.pc = "exchange"
                   => call'.authorization_code = callback.params.code[1]
             /\ callback'.pc = "wait"
             /\ callback'.calls = <<[csrf_token |-> callback.params.state[1],
                                     authorization_code |-> callback.params.code[1]]>> ]_vars
    /\ [][ (callback.pc = "wait" /\ callback' # callback) =>
             callback'.pc = "responded" /\ callback'.calls = callback.calls ]_vars
    /\ [][ (call' # call /\ call = Idle /\ call'.op = "complete_authentication")
             => callback.pc = "call" ]_vars

\* a redirect that carries an error next to the code and the state of a
\* pending authorization was answered without a call, and the authorization
\* is still pending
C26_Witness ==
    /\ callback.pc = "responded" /\ callback.connected
    /\ callback.status = 400 /\ callback.calls = <<>>
    /\ callback.params.error # None /\ callback.params.code # None
    /\ callback.params.state # None
    /\ callback.params.state[1] \in DOMAIN pending_auth
    /\ call = Idle

\* C30: the redirect callback asks for the AccountAlreadyExists notification
\* only when CompleteAuthentication failed with AccountAlreadyExists; after a
\* failure for another reason it asks for no notification, and after a
\* success it asks for AccountAdded(id).
C30_ExistsOnlyForDuplicate ==
    [][ (callback.pc = "wait" /\ callback' # callback) =>
          client' = IF call.err = Null THEN <<"AccountAdded", call.value>>
                    ELSE IF call.err = ErrAccountAlreadyExists
                    THEN <<"AccountExists", BadId>>
                    ELSE NoClient ]_vars

====
